---- MODULE Spec2Model ----
(***************************************************************************)
(* Surface-side control core of the ROV: the shared state store            *)
(* (communication/data_manager.py), its read-time current safeguard, and   *)
(* the reconnecting control channel (communication/connection.py).         *)
(*                                                                         *)
(* Numbers.  The safeguard works on floats; here currents are integers in  *)
(* micro-amperes and transmitted command values are integers in hundredths *)
(* of a PWM unit (a stored command v is transmitted as 100 * v).           *)
(***************************************************************************)
EXTENDS Integers, Sequences, FiniteSets, TLC

VARIABLES
    data,       \* DataManager._data: the cache, a mapping key -> value
    sock,       \* Connection._socket: "None", "unconnected" or "connected"
    pc,         \* position of the Connection._connect task
    inbuf,      \* the bytes returned by the last recv (local `data`)
    sent,       \* << >> or << m >>: m is the last message passed to sendall
    lastErr,    \* the last error seen by the session, "none" after a connect
    peerUp,     \* environment: whether the peer accepts a connection
    rpc,        \* position of a task running DataManager.get
    rargs,      \* that call's positional arguments
    rtransmit,  \* that call's transmit flag
    rkeys,      \* the keys its comprehension still has to visit
    racc,       \* the mapping its comprehension has built so far
    wkw,        \* items a running DataManager.set still has to write
    written,    \* for every key, the values ever stored under it
    sgOut,      \* what a get(transmit=True) of the whole store returned
    sgPc,       \* position of that call: "idle", "ready", "done" or "raised"; "read"
                \* once a read without transmit has followed it
    vsock,      \* VideoStream._socket: "None", "unconnected" or "connected"
    vpc,        \* position of the VideoStream._connect thread
    vbuf,       \* VideoStream._frame_partial: the bytes gathered so far
    vframe,     \* VideoStream._frame: "None" or the last decoded frame
    vlastErr,   \* the last error seen by the video session
    vgot,       \* what the last recv of the video session returned: "none", "bytes" or "zero"
    vacks,      \* number of ACK messages passed to sendall
    link,       \* environment: the camera's end, "down", "listening", "up" or "peer_closed"
    wire,       \* environment: bytes the camera sent that recv has not returned yet
    spay,       \* environment: << >> or << p >>: p is the payload the camera awaits an ACK for
    nsent,      \* environment: number of frames the camera has sent
    axes,       \* Controller._left_axis_x ... _right_axis_y: the accepted raw readings
    lastEvent,  \* << >> or << code, state >>: the last event passed to _dispatch_event
    triggers,   \* Controller._left_trigger, _right_trigger: the raw readings
    hat,        \* Controller._hat_x, _hat_y
    buttons,    \* Controller.button_A ... button_start: 0 (False) or 1
    lastSaved,  \* Controller._data_manager_last_saved
    tickWrote,  \* the number of dm.set_data calls of the running (or the last) _tick_update_data
    tpos,       \* the number of keys the running _tick_update_data has visited,
                \* 0 between two ticks
    cstep,      \* the controller: "off" (no _controller), "failed" (init() reported
                \* that), "new" (in __init__), "built" (constructed) or "run"
                \* (init() started its threads)
    hw,         \* whether a game controller was detected
    mpc         \* position of main.py: "construct", "init", "connect", "stream" or "started"

vars == << data, sock, pc, inbuf, sent, lastErr, peerUp,
           rpc, rargs, rtransmit, rkeys, racc, wkw, written,
           sgOut, sgPc,
           vsock, vpc, vbuf, vframe, vlastErr, vgot, vacks,
           link, wire, spay, nsent,
           axes, lastEvent, triggers, hat, buttons, lastSaved, tickWrote, tpos, cstep, hw, mpc >>

connVars == << sock, pc, inbuf, sent, lastErr, peerUp >>
readerVars == << rpc, rargs, rtransmit, rkeys, racc >>
sgVars == << sgOut, sgPc >>
vidVars == << vsock, vpc, vbuf, vframe, vlastErr, vgot, vacks >>
camVars == << link, wire, spay, nsent >>
\* the variables of the Controller and of the main program that starts it
axVars == << axes, lastEvent, triggers, hat, buttons, lastSaved, tickWrote, tpos, cstep, hw, mpc >>

\* Controller: the four stick axes
AxisFields == {"left_axis_x", "left_axis_y", "right_axis_x", "right_axis_y"}

TriggerFields == {"left_trigger", "right_trigger"}

HatFields == {"hat_x", "hat_y"}

ButtonFields ==
    {"button_A", "button_B", "button_X", "button_Y", "button_LB", "button_RB",
     "button_left_stick", "button_right_stick", "button_select", "button_start"}

\* the variables of the parts other than the command link and the store
extVars == << sgVars, vidVars, camVars, axVars >>
\* the variables of the command link and of the store's callers
coreVars == << connVars, readerVars, wkw, written >>

-----------------------------------------------------------------------------
(* Keys *)

Thrusters ==
    {"Thr_FP", "Thr_FS", "Thr_AP", "Thr_AS", "Thr_TFP", "Thr_TFS", "Thr_TAP", "Thr_TAS"}

TransmissionKeys == Thrusters \cup {"Mot_R", "Mot_G", "Mot_F", "LED_M"}

SAFEGUARD_KEYS == Thrusters \cup {"Mot_F", "Mot_G"}

\* keys the controller keeps in the store for local use only
LocalKeys == {"lax", "hx"}

Keys == TransmissionKeys \cup LocalKeys

EmptyDict == [k \in {} |-> 0]

\* dict restricted to the keys of S it holds
Restrict(d, S) == [k \in (DOMAIN d) \cap S |-> d[k]]

\* the set of elements of a sequence
Range(s) == {s[i] : i \in 1..Len(s)}

-----------------------------------------------------------------------------
(* Safeguard arithmetic *)

AMP_LIMIT == 99000000

IDLE_VALUES == {1500}

\* hundredths of a PWM unit per PWM unit
Scale == 100

\* a * 10^11, the quadratic coefficient
QuadA == 9537964

\* -b / (2a) = 1501.8257..., the vertex of the current curve, in hundredths
VertexValue == 150183

\* c - b^2 / (4a) = -0.1756279... A, the minimum of the current curve,
\* rounded down to a micro-ampere
VertexAmp == 0 - 175628

\* largest root ISqrt can return without overflowing a 32-bit product
SqrtMax == 46340

\* _amp: a*x^2 + b*x + c in micro-amperes, rounded down.  With d = x - 1500
\* the polynomial is 95.37964 d^2 - 348.28 d - 175310 micro-amperes.
Amp(x) ==
    LET d == x - 1500
    IN  95 * d * d - 348 * d - 175310 + ((9491 * d * d - 7000 * d) \div 25000)

\* (x * y) % z for x, y >= 0 and z > 0, by shift-and-add over the bits of
\* y, so that no intermediate exceeds 3 * z
RECURSIVE MulMod(_, _, _)
MulMod(x, y, z) ==
    IF y = 0 THEN 0
    ELSE (2 * MulMod(x, y \div 2, z) + (y % 2) * (x % z)) % z

\* (x * y) \div z for x, y >= 0 and z > 0, likewise
RECURSIVE MulDivQ(_, _, _)
MulDivQ(x, y, z) ==
    IF y = 0 THEN 0
    ELSE 2 * MulDivQ(x, y \div 2, z) + (y % 2) * (x \div z)
            + ((2 * MulMod(x, y \div 2, z) + (y % 2) * (x % z)) \div z)

\* x * y / z rounded towards zero, x of either sign
MulDiv(x, y, z) ==
    IF x >= 0 THEN MulDivQ(x, y, z) ELSE 0 - MulDivQ(0 - x, y, z)

RECURSIVE SqrtIter(_, _, _)
SqrtIter(n, lo, hi) ==
    IF lo = hi THEN lo
    ELSE LET mid == (lo + hi + 1) \div 2
         IN  IF mid * mid <= n THEN SqrtIter(n, mid, hi) ELSE SqrtIter(n, lo, mid - 1)

\* math.sqrt on a non-negative argument, rounded down
ISqrt(n) == SqrtIter(n, 0, SqrtMax)

\* a square root that fails on every negative current
ScaleRaisesOnNegative(v) == v < 0

\* b^2 - 4a(c - v) < 0: math.sqrt raises ValueError
ScaleRaises(v) == v < VertexAmp

\* _safeguard_scale: both roots of amp(x) = v, in hundredths:
\* (-b + sqrt(b^2 - 4a(c - v))) / 2a and (-b - sqrt(...)) / 2a, where
\* sqrt(b^2 - 4a(c - v)) / 2a = sqrt((v - VertexAmp) / a)
SafeguardScale(v) ==
    LET delta == ISqrt(MulDiv(v - VertexAmp, 1000000000, QuadA))
    IN  << VertexValue + delta, VertexValue - delta >>

Abs(x) == IF x < 0 THEN 0 - x ELSE x

RECURSIVE SumOver(_, _)
SumOver(f, S) ==
    IF S = {} THEN 0
    ELSE LET k == CHOOSE x \in S : TRUE IN f[k] + SumOver(f, S \ {k})

-----------------------------------------------------------------------------
(* DataManager *)

\* a set that replaces the cache by its keyword arguments
SetReplaces(d, kwargs) == kwargs

\* DataManager.set: for key, value in kwargs.items(): self._data[key] = value
Set(d, kwargs) ==
    [k \in (DOMAIN d) \cup (DOMAIN kwargs) |->
        IF k \in DOMAIN kwargs THEN kwargs[k] ELSE d[k]]

\* DataManager.clear
Clear(d) == EmptyDict

\* the first comprehension of _safeguard_transmission_data: the selected
\* data, or the whole transmission dictionary when no args are passed
FetchTransmission(d, args) ==
    IF args # << >>
    THEN Restrict(d, Range(args) \cap TransmissionKeys)
    ELSE Restrict(d, TransmissionKeys)

\* safeguard_data, as first selected from the fetched data
SafeguardData(fetched) == Restrict(fetched, SAFEGUARD_KEYS)

\* amps: the current each selected value would take
Amps(sd) == [k \in DOMAIN sd |-> Amp(sd[k])]

\* current: the total current
TotalCurrent(sd) == SumOver(Amps(sd), DOMAIN sd)

\* a target current that leaves the ratio out
ScaledAmpUnscaled(sd, k) == Amps(sd)[k]

\* amps[key] * ratio with ratio = _AMP_LIMIT / current
ScaledAmp(sd, k) == MulDiv(Amps(sd)[k], AMP_LIMIT, TotalCurrent(sd))

\* the root that replaces value x (a stored PWM value) given both roots
CloserRoot(x, values) ==
    IF Abs(Scale * x - values[1]) <= Abs(Scale * x - values[2])
    THEN values[1]
    ELSE values[2]

\* the scaling loop raises ValueError (math domain error)
SafeguardRaises(fetched) ==
    LET sd == SafeguardData(fetched)
    IN  /\ TotalCurrent(sd) > AMP_LIMIT
        /\ \E k \in DOMAIN sd : ScaleRaises(ScaledAmp(sd, k))

\* a safeguard that rescales the idle values as well
SafeguardStageNoIdle(fetched) ==
    LET sd == SafeguardData(fetched)
    IN  IF TotalCurrent(sd) > AMP_LIMIT
        THEN [k \in DOMAIN sd |-> CloserRoot(sd[k], SafeguardScale(ScaledAmp(sd, k)))]
        ELSE [k \in DOMAIN sd |-> Scale * sd[k]]

\* a safeguard that works to half the budget
SafeguardStageHalfBudget(fetched) ==
    LET sd == SafeguardData(fetched)
        half == AMP_LIMIT \div 2
    IN  IF TotalCurrent(sd) > half
        THEN [k \in DOMAIN sd |->
                IF sd[k] \notin IDLE_VALUES
                THEN CloserRoot(sd[k],
                        SafeguardScale(MulDiv(Amps(sd)[k], half, TotalCurrent(sd))))
                ELSE Scale * sd[k]]
        ELSE [k \in DOMAIN sd |-> Scale * sd[k]]

\* a safeguard that raises every large current by an eighth instead of
\* scaling it to the budget
SafeguardStageScalesUp(fetched) ==
    LET sd == SafeguardData(fetched)
    IN  IF TotalCurrent(sd) > AMP_LIMIT
        THEN [k \in DOMAIN sd |->
                IF sd[k] \notin IDLE_VALUES /\ Amps(sd)[k] > AMP_LIMIT \div 4
                THEN CloserRoot(sd[k], SafeguardScale(Amps(sd)[k] + Amps(sd)[k] \div 8))
                ELSE Scale * sd[k]]
        ELSE [k \in DOMAIN sd |-> Scale * sd[k]]

\* the rest of _safeguard_transmission_data: what it returns for the
\* fetched data, values in hundredths
SafeguardStage(fetched) ==
    LET sd == SafeguardData(fetched)
    IN  IF TotalCurrent(sd) > AMP_LIMIT
        THEN [k \in DOMAIN sd |->
                IF sd[k] \notin IDLE_VALUES
                THEN CloserRoot(sd[k], SafeguardScale(ScaledAmp(sd, k)))
                ELSE Scale * sd[k]]
        ELSE [k \in DOMAIN sd |-> Scale * sd[k]]

\* _safeguard_transmission_data run without interference
SafeguardTransmissionData(d, args) == SafeguardStage(FetchTransmission(d, args))

\* a get that ignores its transmit flag
GetIgnoresTransmit(d, args, transmit) ==
    IF args # << >> THEN Restrict(d, Range(args)) ELSE d

\* DataManager.get run without interference
Get(d, args, transmit) ==
    IF transmit THEN SafeguardTransmissionData(d, args)
    ELSE IF args # << >> THEN Restrict(d, Range(args))
    ELSE d

\* get(transmit=True) raises
GetRaises(d, args, transmit) == transmit /\ SafeguardRaises(FetchTransmission(d, args))

-----------------------------------------------------------------------------
(* Inbound payloads *)

\* every thruster at full forward: 119.57 A in total, over the limit
ObjFull == [k \in Thrusters |-> 1900]

\* a mixed update: an idle thruster, transmit keys outside the safeguard, a local key
ObjMixed == ("Thr_FP" :> 1500) @@ ("Mot_R" :> 1600) @@ ("LED_M" :> 1) @@ ("lax" :> 1234)

Objects == {ObjFull, ObjMixed}

\* What recv can return, by what _handle_data makes of the bytes:
\*   invalid_utf8  bytes that are not UTF-8
\*   blank         only white space
\*   not_json      text that json.loads rejects
\*   json_array    well-formed JSON whose top-level value is a list
\*   json_number   well-formed JSON whose top-level value is a number
\*   json_object   a flat JSON object, its fields in obj
Payloads ==
    {[bytes |-> b, obj |-> EmptyDict] :
        b \in {"invalid_utf8", "blank", "not_json", "json_array", "json_number"}}
    \cup {[bytes |-> "json_object", obj |-> o] : o \in Objects}

NoData == [bytes |-> "none", obj |-> EmptyDict]

\* data.decode("utf-8").strip(): "None" when decoding fails, "" when nothing
\* is left, otherwise the text (named by its kind)
DecodeStrip(p) ==
    IF p.bytes = "invalid_utf8" THEN "None"
    ELSE IF p.bytes = "blank" THEN ""
    ELSE p.bytes

\* json.loads(text): "JSONDecodeError", or the type of the value it returns
Loads(text) ==
    IF text = "not_json" THEN "JSONDecodeError"
    ELSE IF text = "json_array" THEN "list"
    ELSE IF text = "json_number" THEN "int"
    ELSE "dict"

-----------------------------------------------------------------------------
(* Connection._connect *)

\* socket.connect succeeds: the socket is not already connected and the peer accepts
ConnectOk ==
    /\ pc = "top"
    /\ sock # "connected"
    /\ peerUp
    /\ sock' = "connected"
    /\ pc' = "send"
    /\ lastErr' = "none"
    /\ UNCHANGED << data, inbuf, sent, peerUp, readerVars, wkw, written, extVars >>

\* socket.connect raises ConnectionRefusedError: the socket object is kept
ConnectRefused ==
    /\ pc = "top"
    /\ sock # "connected"
    /\ ~peerUp
    /\ sock' = "unconnected"
    /\ pc' = "rsleep"
    /\ lastErr' = "refused"
    /\ UNCHANGED << data, inbuf, sent, peerUp, readerVars, wkw, written, extVars >>

\* socket.connect on a socket that is still connected raises OSError (EISCONN)
ConnectIsConnected ==
    /\ pc = "top"
    /\ sock = "connected"
    /\ pc' = "rsleep"
    /\ lastErr' = "os_error"
    /\ UNCHANGED << data, sock, inbuf, sent, peerUp, readerVars, wkw, written, extVars >>

\* except (ConnectionRefusedError, OSError): sleep(_RECONNECT_DELAY); continue
ReconnectSleep ==
    /\ pc = "rsleep"
    /\ pc' = "top"
    /\ UNCHANGED << data, sock, inbuf, sent, lastErr, peerUp, readerVars, wkw, written, extVars >>

\* _handle_data, first line: sendall(dumps(get_data(transmit=True)))
SendOk ==
    /\ pc = "send"
    /\ IF GetRaises(data, << >>, TRUE)
       THEN pc' = "dead" /\ sent' = sent
       ELSE pc' = "recv" /\ sent' = << Get(data, << >>, TRUE) >>
    /\ UNCHANGED << data, sock, inbuf, lastErr, peerUp, readerVars, wkw, written, extVars >>

\* sendall or recv raises ConnectionResetError or ConnectionAbortedError:
\* sleep, raise DataError, break
ExchangeReset ==
    /\ pc \in {"send", "recv"}
    /\ pc' = "cleanup"
    /\ lastErr' = "reset"
    /\ UNCHANGED << data, sock, inbuf, sent, peerUp, readerVars, wkw, written, extVars >>

\* sendall or recv raises another OSError (BrokenPipeError, TimeoutError):
\* neither except clause of _handle_data nor `except self.DataError` takes
\* it; the outer `except (ConnectionRefusedError, OSError)` does
ExchangeOSError ==
    /\ pc \in {"send", "recv"}
    /\ pc' = "rsleep"
    /\ lastErr' = "os_error"
    /\ UNCHANGED << data, sock, inbuf, sent, peerUp, readerVars, wkw, written, extVars >>

\* recv returns some bytes
RecvData ==
    /\ pc = "recv"
    /\ \E p \in Payloads : inbuf' = p
    /\ pc' = "handle"
    /\ UNCHANGED << data, sock, sent, lastErr, peerUp, readerVars, wkw, written, extVars >>

\* recv returns b"": sleep, raise DataError, break
RecvZero ==
    /\ pc = "recv"
    /\ pc' = "cleanup"
    /\ lastErr' = "zero_read"
    /\ UNCHANGED << data, sock, inbuf, sent, peerUp, readerVars, wkw, written, extVars >>

\* a _handle_data that treats text json.loads rejects as a data error
HandleDataDropsOnBadJson ==
    /\ pc = "handle"
    /\ LET text == DecodeStrip(inbuf)
       IN  IF text \in {"None", ""}
           THEN pc' = "send" /\ UNCHANGED << data, written >>
           ELSE IF Loads(text) = "JSONDecodeError"
           THEN pc' = "cleanup" /\ UNCHANGED << data, written >>
           ELSE IF Loads(text) # "dict"
           THEN pc' = "dead" /\ UNCHANGED << data, written >>
           ELSE /\ pc' = "send"
                /\ data' = Set(data, inbuf.obj)
                /\ written' = [k \in Keys |->
                        IF k \in DOMAIN inbuf.obj THEN written[k] \cup {inbuf.obj[k]} ELSE written[k]]
    /\ UNCHANGED << sock, inbuf, sent, lastErr, peerUp, readerVars, wkw, extVars >>

\* the rest of _handle_data, then sleep(_COMMUNICATION_DELAY)
HandleData ==
    /\ pc = "handle"
    /\ LET text == DecodeStrip(inbuf)
       IN  IF text \in {"None", ""}
           THEN pc' = "send" /\ UNCHANGED << data, written >>
           ELSE IF Loads(text) = "JSONDecodeError"
           THEN pc' = "send" /\ UNCHANGED << data, written >>
           ELSE IF Loads(text) # "dict"
           THEN pc' = "dead" /\ UNCHANGED << data, written >>   \* TypeError from set_data(**value)
           ELSE /\ pc' = "send"
                /\ data' = Set(data, inbuf.obj)
                /\ written' = [k \in Keys |->
                        IF k \in DOMAIN inbuf.obj THEN written[k] \cup {inbuf.obj[k]} ELSE written[k]]
    /\ UNCHANGED << sock, inbuf, sent, lastErr, peerUp, readerVars, wkw, extVars >>

\* a clean-up that closes the socket but keeps the socket field
CleanupKeepsSocket ==
    /\ pc = "cleanup"
    /\ pc' = "top"
    /\ UNCHANGED << data, sock, inbuf, sent, lastErr, peerUp, readerVars, wkw, written, extVars >>

\* after the exchange loop: self._socket.close(); self._socket = None
Cleanup ==
    /\ pc = "cleanup"
    /\ sock' = "None"
    /\ pc' = "top"
    /\ UNCHANGED << data, inbuf, sent, lastErr, peerUp, readerVars, wkw, written, extVars >>

\* the peer starts or stops accepting connections
PeerChange ==
    /\ peerUp' = ~peerUp
    /\ UNCHANGED << data, sock, pc, inbuf, sent, lastErr, readerVars, wkw, written, extVars >>

ConnStep ==
    \/ ConnectOk \/ ConnectRefused \/ ConnectIsConnected \/ ReconnectSleep
    \/ SendOk \/ ExchangeReset \/ ExchangeOSError
    \/ RecvData \/ RecvZero \/ HandleData \/ Cleanup

\* Connection.__init__, and no caller inside the store
TasksInit ==
    /\ sock = "None"
    /\ pc = "top"
    /\ inbuf = NoData
    /\ sent = << >>
    /\ lastErr = "none"
    /\ rpc = "idle"
    /\ rargs = << >>
    /\ rtransmit = FALSE
    /\ rkeys = << >>
    /\ racc = EmptyDict
    /\ wkw = << >>
    /\ written = [k \in Keys |-> {}]

\* no whole-store read has been asked for
SgIdle ==
    /\ sgOut = EmptyDict
    /\ sgPc = "idle"

\* VideoStream.__init__
VidInit ==
    /\ vsock = "None"
    /\ vpc = "top"
    /\ vbuf = << >>
    /\ vframe = "None"
    /\ vlastErr = "none"
    /\ vgot = "none"
    /\ vacks = 0

\* the camera is not listening yet and has sent nothing
CamInit ==
    /\ link = "down"
    /\ wire = << >>
    /\ spay = << >>
    /\ nsent = 0

\* the readings Controller.__init__ starts from
Defaults ==
    /\ axes = [f \in AxisFields |-> 0]
    /\ triggers = [f \in TriggerFields |-> 0]
    /\ hat = [f \in HatFields |-> 0]
    /\ buttons = [f \in ButtonFields |-> 0]
    /\ lastEvent = << >>

\* Controller.__init__ when devices.gamepads is empty: it returns before it
\* sets any field, and init() has reported it and started no thread
AxInit ==
    /\ Defaults
    /\ lastSaved = EmptyDict
    /\ tickWrote = 0
    /\ tpos = 0
    /\ cstep = "failed"
    /\ hw = FALSE
    /\ mpc = "started"

\* main.py: dm.clear(), then connection.connect() starts the task
Init ==
    /\ data = EmptyDict
    /\ peerUp \in BOOLEAN
    /\ TasksInit
    /\ SgIdle
    /\ VidInit
    /\ CamInit
    /\ AxInit

Next == ConnStep \/ PeerChange

Spec == Init /\ [][Next]_vars

\* the steps of the session task other than a completed send
SessionStep ==
    \/ ConnectOk \/ ConnectRefused \/ ConnectIsConnected \/ ReconnectSleep
    \/ ExchangeReset \/ ExchangeOSError
    \/ RecvData \/ RecvZero \/ HandleData \/ Cleanup

\* The session task is a process of its own and keeps being scheduled: it
\* does not stop for ever in front of a step it can take.  A completed send
\* is left out of the fairness condition; no property depends on it.
FairSpec == Spec /\ WF_vars(SessionStep)

-----------------------------------------------------------------------------
(* DataManager under concurrent callers.  The cache serialises single-key  *)
(* operations (key in cache, cache[key], cache[key] = value, clear); a     *)
(* call of get or set is a sequence of them.                                *)

\* the elements of a set in the order an iteration visits them
RECURSIVE SetToSeq(_)
SetToSeq(S) ==
    IF S = {} THEN << >>
    ELSE LET k == CHOOSE x \in S : TRUE IN << k >> \o SetToSeq(S \ {k})

\* positional arguments the callers pass to get
ArgChoices == {<< >>, << "Thr_FP", "Mot_R" >>, << "lax", "Mot_G" >>}

\* keyword arguments the callers pass to set, as (key, value) items
KwargChoices ==
    {<< << "Thr_FP", 1900 >>, << "Mot_R", 1600 >> >>,
     << << "lax", 1234 >>, << "Thr_FP", 1500 >> >>}

\* get(*args, transmit=...) is entered: the iterable of its comprehension
GetCall ==
    /\ rpc = "idle"
    /\ \E args \in ArgChoices, t \in BOOLEAN :
        /\ rargs' = args
        /\ rtransmit' = t
        /\ rkeys' = IF args # << >> THEN args
                    ELSE IF t THEN SetToSeq(TransmissionKeys)
                    ELSE SetToSeq(DOMAIN data)
        /\ rpc' = IF args = << >> /\ ~t
                  THEN (IF DOMAIN data = {} THEN "stage" ELSE "read")
                  ELSE "check"
    /\ racc' = EmptyDict
    /\ UNCHANGED << data, connVars, wkw, written, extVars >>

\* the comprehension's condition for the next key:
\* [key in self._transmission_keys and] key in self._data
GetCheck ==
    /\ rpc = "check"
    /\ LET key == Head(rkeys)
       IN  IF (rtransmit => key \in TransmissionKeys) /\ key \in DOMAIN data
           THEN rpc' = "read" /\ rkeys' = rkeys
           ELSE /\ rkeys' = Tail(rkeys)
                /\ rpc' = IF Tail(rkeys) = << >> THEN "stage" ELSE "check"
    /\ UNCHANGED << data, connVars, rargs, rtransmit, racc, wkw, written, extVars >>

\* the comprehension's value for the key: self._data[key], KeyError if absent
GetRead ==
    /\ rpc = "read"
    /\ LET key == Head(rkeys)
       IN  IF key \in DOMAIN data
           THEN /\ racc' = (key :> data[key]) @@ racc
                /\ rkeys' = Tail(rkeys)
                /\ rpc' = IF Tail(rkeys) = << >> THEN "stage"
                          ELSE IF rargs = << >> /\ ~rtransmit THEN "read"
                          ELSE "check"
           ELSE rpc' = "raised" /\ UNCHANGED << racc, rkeys >>
    /\ UNCHANGED << data, connVars, rargs, rtransmit, wkw, written, extVars >>

\* get returns: the mapping built, through the safeguard when transmit is set
GetReturn ==
    /\ rpc = "stage"
    /\ IF rtransmit /\ SafeguardRaises(racc)
       THEN rpc' = "raised" /\ racc' = racc
       ELSE rpc' = "done" /\ racc' = IF rtransmit THEN SafeguardStage(racc) ELSE racc
    /\ UNCHANGED << data, connVars, rargs, rtransmit, rkeys, wkw, written, extVars >>

\* the caller goes on; a later call starts afresh
GetExit ==
    /\ rpc \in {"done", "raised"}
    /\ rpc' = "idle"
    /\ rargs' = << >>
    /\ rtransmit' = FALSE
    /\ rkeys' = << >>
    /\ racc' = EmptyDict
    /\ UNCHANGED << data, connVars, wkw, written, extVars >>

\* another task enters set(**kwargs)
SetCall ==
    /\ wkw = << >>
    /\ \E kw \in KwargChoices : wkw' = kw
    /\ UNCHANGED << data, connVars, readerVars, written, extVars >>

\* one round of set's loop: self._data[key] = value
SetItem ==
    /\ wkw # << >>
    /\ LET key == Head(wkw)[1]
           value == Head(wkw)[2]
       IN  /\ data' = Set(data, key :> value)
           /\ written' = [written EXCEPT ![key] = @ \cup {value}]
    /\ wkw' = Tail(wkw)
    /\ UNCHANGED << connVars, readerVars, extVars >>

\* another task calls clear()
ClearCall ==
    /\ data' = Clear(data)
    /\ UNCHANGED << connVars, readerVars, wkw, written, extVars >>

StoreNext ==
    \/ GetCall \/ GetCheck \/ GetRead \/ GetReturn \/ GetExit
    \/ SetCall \/ SetItem \/ ClearCall

\* the store after the start-up clear; no session task
StoreSpec == Init /\ [][StoreNext]_vars

-----------------------------------------------------------------------------
(* Properties of the control channel *)

\* C1: on a connected session a zero-length receive takes the session to
\* the clean-up (no error escapes the loop), the clean-up closes the socket
\* and resets the socket field, and a new connect attempt follows.
C1_ZeroReadReconnects ==
    /\ [](lastErr = "zero_read" => pc \in {"cleanup", "top"})
    /\ [](lastErr = "zero_read" /\ pc = "top" => sock = "None")
    /\ (lastErr = "zero_read" /\ pc = "cleanup") ~> (lastErr = "zero_read" /\ pc = "top")
    /\ (lastErr = "zero_read" /\ pc = "top")
            ~> (lastErr \in {"none", "refused"} /\ pc \in {"send", "rsleep"})

\* a zero-length receive was handled: socket reset, about to connect again
C1_Witness == lastErr = "zero_read" /\ pc = "top" /\ sock = "None"

\* C2: whatever transport error ended the exchange, the socket has been
\* closed and the socket field reset when the next connect is attempted: a
\* connect is never attempted on a socket that was connected before.
C2_ConnectOnlyOnFreshSocket == (pc = "top") => (sock # "connected")

\* C3: after any transport error, if the peer accepts connections from then
\* on, the session is eventually connected again and back at its send.
C3_EventuallyReconnected ==
    (lastErr # "none") ~> (~peerUp \/ (pc = "send" /\ sock = "connected" /\ lastErr = "none"))

\* C4: a non-empty payload that is not UTF-8 or not JSON is discarded: the
\* session stays connected, the store is unchanged, the next cycle starts.
C4_MalformedDiscarded ==
    [][(pc = "handle" /\ pc' # "handle" /\ inbuf.bytes \in {"invalid_utf8", "not_json"})
        => (pc' = "send" /\ sock = "connected" /\ sock' = "connected" /\ data' = data)]_vars

\* a malformed payload was handled and the next cycle is about to send
C4_Witness ==
    /\ pc = "send"
    /\ inbuf.bytes \in {"invalid_utf8", "not_json"}
    /\ sock = "connected"
    /\ data # EmptyDict

\* C5: no inbound payload and no socket error makes an exception escape the
\* connect-and-exchange loop.
C5_LoopNeverDies == pc # "dead"

C7_OnlyWhitelistedSent ==
    \A i \in 1..Len(sent) : DOMAIN sent[i] \subseteq TransmissionKeys

\* a message was just sent from a store that holds a local key
C7_Witness ==
    /\ pc = "recv"
    /\ "lax" \in DOMAIN data
    /\ Len(sent) = 1
    /\ DOMAIN sent[1] # {}

\* C8: the transmit projection about to be sent holds every whitelisted key
\* present in the store, the keys outside the safeguard at their stored values.
C8_ProjectionComplete ==
    (pc = "send") =>
        LET out == Get(data, << >>, TRUE)
        IN  /\ DOMAIN out = TransmissionKeys \cap DOMAIN data
            /\ \A k \in (DOMAIN out) \ SAFEGUARD_KEYS : out[k] = Scale * data[k]

\* C9: get() is the whole store; get(keys) is the store restricted to the
\* requested keys present; with transmit=True the keys returned are those
\* also on the whitelist, and no others are dropped.
C9_GetSelection ==
    /\ Get(data, << >>, FALSE) = data
    /\ \A args \in ArgChoices \ {<< >>} :
        /\ DOMAIN Get(data, args, FALSE) = Range(args) \cap DOMAIN data
        /\ \A k \in Range(args) \cap DOMAIN data : Get(data, args, FALSE)[k] = data[k]
        /\ DOMAIN Get(data, args, TRUE) = Range(args) \cap TransmissionKeys \cap DOMAIN data

\* C10: a get running among set and clear calls never raises, and every
\* value it returns is one that a set stored under that key.
C10_GetSafeUnderConcurrency ==
    /\ rpc # "raised"
    /\ (rpc = "done") =>
        \A k \in DOMAIN racc :
            racc[k] \in {(IF rtransmit THEN Scale * v ELSE v) : v \in written[k]}


-----------------------------------------------------------------------------
(* The safeguard as a function of the store: a read of the whole store     *)
(* with transmit=True, for stores drawn from a bounded family.              *)

\* values a safeguarded key may hold: both ends of the range, the idle
\* value, its neighbours on either side of the vertex, and part throttle
SgValues == {1100, 1300, 1499, 1500, 1501, 1502, 1700, 1900}

\* the safeguarded keys a store of the family holds: the thrusters alone,
\* or the thrusters and both safeguarded motors
SgKeySets == {Thrusters, SAFEGUARD_KEYS}

\* a store that holds value a for one thruster, b for two others and c for
\* the remaining keys of S, next to a transmission key outside the
\* safeguard and a local key
SgStore(S, a, b, c) ==
    [k \in S |-> IF k = "Thr_FP" THEN a
                 ELSE IF k \in {"Thr_FS", "Thr_AP"} THEN b
                 ELSE c]
    @@ ("Mot_R" :> 1600) @@ ("lax" :> 1234)

SgStores == {SgStore(S, a, b, c) : S \in SgKeySets, a \in SgValues, b \in SgValues, c \in SgValues}

\* _amp of a value given in hundredths, in micro-amperes: with
\* d = 100 (x - 1500) the polynomial is 0.009537964 d^2 - 3.4828 d - 175310
AmpCenti(v) ==
    LET d == v - Scale * 1500
    IN  MulDiv(d * d, 2384491, 250000000) - ((8707 * d) \div 2500) - 175310

\* the total current the returned values would take
ReturnedCurrent(out) == SumOver([k \in DOMAIN out |-> AmpCenti(out[k])], DOMAIN out)

\* the safeguarded data of the store, as a whole-store read selects it
Safeguarded(d) == SafeguardData(FetchTransmission(d, << >>))

\* data = dm.get(transmit=True), as Connection._handle_data calls it
\* a read for transmission that stores what it returns
SgGetWritesBack ==
    /\ sgPc = "ready"
    /\ ~GetRaises(data, << >>, TRUE)
    /\ sgPc' = "done"
    /\ sgOut' = Get(data, << >>, TRUE)
    /\ data' = Set(data, [k \in DOMAIN sgOut' |-> sgOut'[k] \div Scale])
    /\ UNCHANGED << coreVars, vidVars, camVars, axVars >>

SgGet ==
    /\ sgPc = "ready"
    /\ IF GetRaises(data, << >>, TRUE)
       THEN sgPc' = "raised" /\ sgOut' = sgOut
       ELSE sgPc' = "done" /\ sgOut' = Get(data, << >>, TRUE)
    /\ UNCHANGED << data, coreVars, vidVars, camVars, axVars >>

SgInit ==
    /\ data \in SgStores
    /\ peerUp = FALSE
    /\ TasksInit
    /\ sgOut = EmptyDict
    /\ sgPc = "ready"
    /\ VidInit
    /\ CamInit
    /\ AxInit

\* data = dm.get(): a later read of the whole store without transmit
SgPlainGet ==
    /\ sgPc = "done"
    /\ sgPc' = "read"
    /\ sgOut' = Get(data, << >>, FALSE)
    /\ UNCHANGED << data, coreVars, vidVars, camVars, axVars >>

SgNext == SgGet \/ SgPlainGet

SafeguardSpec == SgInit /\ [][SgNext]_vars

\* a store whose eight thrusters are all at 1500
EightIdle == SgStore(Thrusters, 1500, 1500, 1500)

\* C11: when the total predicted current of the safeguarded values is at
\* most the budget of 99 A, the read returns every safeguarded value
\* unchanged; eight thrusters at 1500 are below the budget and are all
\* returned as 1500.
C11_UnderBudgetUnchanged ==
    /\ (sgPc = "done" /\ TotalCurrent(Safeguarded(data)) <= AMP_LIMIT)
            => /\ DOMAIN sgOut = DOMAIN Safeguarded(data)
               /\ \A k \in DOMAIN sgOut : sgOut[k] = Scale * data[k]
    /\ (sgPc = "done" /\ data = EightIdle)
            => /\ TotalCurrent(Safeguarded(data)) < AMP_LIMIT
               /\ sgOut = [k \in Thrusters |-> Scale * 1500]

C11_Witness ==
    /\ sgPc = "done"
    /\ data = EightIdle
    /\ sgOut = [k \in Thrusters |-> Scale * 1500]

\* currents are compared to within 0.01 A: a hundredth of a PWM unit is
\* worth up to 0.8 mA on each of ten keys
CurrentTolerance == 10000

\* the read rescaled the store: it returned, and the total was over the budget
Rescaled == sgPc = "done" /\ TotalCurrent(Safeguarded(data)) > AMP_LIMIT

\* the safeguarded keys of the store that hold an idle value
IdleKeys(d) == {k \in DOMAIN Safeguarded(d) : d[k] \in IDLE_VALUES}

\* the total current of the idle values of the store (negative: amp(1500) < 0)
IdleCurrent(d) == SumOver(Amps(Safeguarded(d)), IdleKeys(d))

\* C12 as stated: whenever the total exceeds the budget, the predicted
\* currents of the returned values add up to the budget (within tolerance),
\* idle values in the vector or not.
C12_SumEqualsBudget ==
    Rescaled => Abs(ReturnedCurrent(sgOut) - AMP_LIMIT) <= CurrentTolerance

\* C12 amended: whenever the total exceeds the budget, the predicted
\* currents of the returned values add up to the budget less the share
\* (1 - ratio) of the current of the idle values, which are not rescaled;
\* they add up to the budget when no key holds an idle value.
C12_SumEqualsBudgetButIdle ==
    Rescaled =>
        LET idle == IdleCurrent(data)
            kept == idle - MulDiv(idle, AMP_LIMIT, TotalCurrent(Safeguarded(data)))
        IN  /\ Abs(ReturnedCurrent(sgOut) - (AMP_LIMIT + kept)) <= CurrentTolerance
            /\ IdleKeys(data) = {} => kept = 0

C12_Witness ==
    /\ Rescaled
    /\ IdleKeys(data) # {}
    /\ ReturnedCurrent(sgOut) < AMP_LIMIT - CurrentTolerance

\* -1, 0 or 1
Sign(x) == IF x < 0 THEN 0 - 1 ELSE IF x > 0 THEN 1 ELSE 0

\* C13: when the total exceeds the budget, every non-idle value of
\* [1100, 1900] is replaced by a value on the same side of 1500.
C13_DirectionPreserved ==
    Rescaled =>
        \A k \in DOMAIN sgOut :
            data[k] \notin IDLE_VALUES
                => Sign(sgOut[k] - Scale * 1500) = Sign(data[k] - 1500)

\* C14: a safeguarded key whose stored value is in the idle set is returned
\* with exactly that value, over the budget or not.
C14_IdleReturnedExactly ==
    sgPc = "done" =>
        \A k \in DOMAIN sgOut :
            data[k] \in IDLE_VALUES => sgOut[k] = Scale * data[k]

C14_Witness ==
    /\ Rescaled
    /\ \E k \in DOMAIN sgOut : data[k] \in IDLE_VALUES /\ sgOut[k] = Scale * data[k]
    /\ \E k \in DOMAIN sgOut : sgOut[k] # Scale * data[k]

-----------------------------------------------------------------------------
(* VideoStream: frames and their bytes *)

\* _end_payload: the bytes of "Frame was successfully sent"
END_PAYLOAD ==
    << "F", "r", "a", "m", "e", " ", "w", "a", "s", " ", "s", "u", "c", "c", "e",
       "s", "s", "f", "u", "l", "l", "y", " ", "s", "e", "n", "t" >>

\* the frames a camera sends; the pixels of frameE hold the bytes of the
\* end marker
Frames == {"frame1", "frame2", "frameE"}

\* the pickle of a frame: a header, the pixels, and the STOP opcode "."
Dumps(f) ==
    IF f = "frame1" THEN << "P", "1", "." >>
    ELSE IF f = "frame2" THEN << "P", "2", "." >>
    ELSE << "P" >> \o END_PAYLOAD \o << "." >>

\* a payload that is no pickle
Corrupt == << "X", "." >>

\* what a camera may put in front of the end marker: the pickle of a frame,
\* bytes that are no pickle, or nothing at all
VPayloads == {Dumps(f) : f \in Frames} \cup {Corrupt, << >>}

\* dill.loads(b): the frame b is the pickle of; EOFError on no bytes at
\* all; on any other bytes UnpicklingError or, depending on where the
\* unpickler trips, another exception (EOFError, KeyError, IndexError,
\* struct.error), here "OtherError".  No proper prefix of a pickle is a
\* pickle: STOP is its last opcode.
PickleLoads(b) ==
    IF \E f \in Frames : b = Dumps(f) THEN {f \in Frames : b = Dumps(f)}
    ELSE IF b = << >> THEN {"EOFError"}
    ELSE {"UnpicklingError", "OtherError"}

\* buf[-len(e):] == e
EndsWith(buf, e) ==
    /\ Len(buf) >= Len(e)
    /\ SubSeq(buf, Len(buf) - Len(e) + 1, Len(buf)) = e

\* buf[:-len(_end_payload)]
Body(buf) == SubSeq(buf, 1, Len(buf) - Len(END_PAYLOAD))

\* frames a camera sends in one run of the model
MaxFrames == 2

\* the buffer size passed to recv
RECV_SIZE == 4096

\* a piece that ends inside the end marker of a short frame, and right
\* behind the end marker that the pixels of frameE hold
MarkerCut == 28

\* the sizes of the pieces in which the network hands bytes to recv
ChunkSizes == {MarkerCut, RECV_SIZE}

Min(a, b) == IF a < b THEN a ELSE b

-----------------------------------------------------------------------------
(* VideoStream._connect and VideoStream._handle_data *)

\* socket.connect succeeds: the camera is listening
VConnectOk ==
    /\ vpc = "top"
    /\ vsock # "connected"
    /\ link = "listening"
    /\ vsock' = "connected"
    /\ vpc' = "recv"
    /\ vlastErr' = "none"
    /\ vgot' = "none"
    /\ link' = "up"
    /\ wire' = << >>
    /\ spay' = << >>
    /\ UNCHANGED << vbuf, vframe, vacks, nsent, data, coreVars, sgVars, axVars >>

\* socket.connect raises ConnectionRefusedError: nobody listens
VConnectRefused ==
    /\ vpc = "top"
    /\ vsock # "connected"
    /\ link # "listening"
    /\ vsock' = "unconnected"
    /\ vpc' = "rsleep"
    /\ vlastErr' = "refused"
    /\ UNCHANGED << vbuf, vframe, vgot, vacks, camVars, data, coreVars, sgVars, axVars >>

\* socket.connect on a socket that is still connected raises OSError (EISCONN)
VConnectIsConnected ==
    /\ vpc = "top"
    /\ vsock = "connected"
    /\ vpc' = "rsleep"
    /\ vlastErr' = "os_error"
    /\ UNCHANGED << vsock, vbuf, vframe, vgot, vacks, camVars, data, coreVars, sgVars, axVars >>

\* except (ConnectionRefusedError, OSError): sleep(self._RECONNECT_DELAY); continue
VReconnectSleep ==
    /\ vpc = "rsleep"
    /\ vpc' = "top"
    /\ UNCHANGED << vsock, vbuf, vframe, vlastErr, vgot, vacks, camVars, data, coreVars, sgVars, axVars >>

\* recv(4096) can return n bytes: as many as the network hands over in one
\* piece, at most those in flight, or none at all once the camera has
\* closed and nothing is left in flight
CanRecv(n) ==
    /\ vpc = "recv"
    /\ \/ n >= 1 /\ \E c \in ChunkSizes : n = Min(c, Len(wire))
       \/ n = 0 /\ wire = << >> /\ link = "peer_closed"

\* self._frame_partial += self._socket.recv(4096)
Received(n) == vbuf \o SubSeq(wire, 1, n)

\* what the recv leaves in flight, and what it returned
Took(n) ==
    /\ wire' = SubSeq(wire, n + 1, Len(wire))
    /\ vgot' = IF n = 0 THEN "zero" ELSE "bytes"

\* loads(self._frame_partial[:-len(self._end_payload)]) if self._frame_partial else None
Decode(buf) == IF buf # << >> THEN PickleLoads(Body(buf)) ELSE {"None"}

\* _handle_data: the buffer is empty after the recv, DataError is raised
VRecvEmpty ==
    /\ CanRecv(0)
    /\ Received(0) = << >>
    /\ Took(0)
    /\ vpc' = "cleanup"
    /\ vlastErr' = "zero_read"
    /\ UNCHANGED << vsock, vbuf, vframe, vacks, link, spay, nsent, data, coreVars, sgVars, axVars >>

\* a step that sends an ACK for every piece it receives
VRecvPartialAcks ==
    \E n \in 0..Len(wire) :
        /\ CanRecv(n)
        /\ Received(n) # << >>
        /\ ~EndsWith(Received(n), END_PAYLOAD)
        /\ Took(n)
        /\ vbuf' = Received(n)
        /\ vacks' = vacks + 1
        /\ UNCHANGED << vsock, vpc, vframe, vlastErr, link, spay, nsent,
                        data, coreVars, sgVars, axVars >>

\* _handle_data: the buffer is not empty and does not end with the marker
VRecvPartial ==
    \E n \in 0..Len(wire) :
        /\ CanRecv(n)
        /\ Received(n) # << >>
        /\ ~EndsWith(Received(n), END_PAYLOAD)
        /\ Took(n)
        /\ vbuf' = Received(n)
        /\ UNCHANGED << vsock, vpc, vframe, vlastErr, vacks, link, spay, nsent,
                        data, coreVars, sgVars, axVars >>

\* _handle_data: the buffer ends with the marker, the bytes before it
\* decode, and the ACK is sent (the camera may send its next frame)
VRecvFrame ==
    \E n \in 0..Len(wire) :
        /\ CanRecv(n)
        /\ EndsWith(Received(n), END_PAYLOAD)
        /\ \E f \in Decode(Received(n)) \cap Frames :
            vframe' = f
        /\ Took(n)
        /\ vbuf' = << >>
        /\ vacks' = vacks + 1
        /\ spay' = << >>
        /\ UNCHANGED << vsock, vpc, vlastErr, link, nsent, data, coreVars, sgVars, axVars >>

\* the same, but sendall raises ConnectionResetError or ConnectionAbortedError
VRecvFrameAckReset ==
    \E n \in 0..Len(wire) :
        /\ CanRecv(n)
        /\ EndsWith(Received(n), END_PAYLOAD)
        /\ \E f \in Decode(Received(n)) \cap Frames :
            vframe' = f
        /\ Took(n)
        /\ vbuf' = << >>
        /\ vpc' = "cleanup"
        /\ vlastErr' = "reset"
        /\ UNCHANGED << vsock, vacks, link, spay, nsent, data, coreVars, sgVars, axVars >>

\* the same, but sendall raises another OSError (BrokenPipeError,
\* TimeoutError): neither handler of _handle_data nor `except DataError`
\* catches it, the outer handler sleeps and continues
VRecvFrameAckOSError ==
    \E n \in 0..Len(wire) :
        /\ CanRecv(n)
        /\ EndsWith(Received(n), END_PAYLOAD)
        /\ \E f \in Decode(Received(n)) \cap Frames :
            vframe' = f
        /\ Took(n)
        /\ vbuf' = << >>
        /\ vpc' = "rsleep"
        /\ vlastErr' = "os_error"
        /\ UNCHANGED << vsock, vacks, link, spay, nsent, data, coreVars, sgVars, axVars >>

\* a step that clears the frame when loads raises UnpicklingError
VRecvFrameUnpicklingErrorClears ==
    \E n \in 0..Len(wire) :
        /\ CanRecv(n)
        /\ EndsWith(Received(n), END_PAYLOAD)
        /\ "UnpicklingError" \in Decode(Received(n))
        /\ Took(n)
        /\ vbuf' = << >>
        /\ vframe' = "None"
        /\ vpc' = "cleanup"
        /\ vlastErr' = "decode"
        /\ UNCHANGED << vsock, vacks, link, spay, nsent, data, coreVars, sgVars, axVars >>

\* _handle_data: the buffer ends with the marker and loads raises
\* UnpicklingError, which becomes DataError; the buffer keeps its bytes
VRecvFrameUnpicklingError ==
    \E n \in 0..Len(wire) :
        /\ CanRecv(n)
        /\ EndsWith(Received(n), END_PAYLOAD)
        /\ "UnpicklingError" \in Decode(Received(n))
        /\ Took(n)
        /\ vbuf' = Received(n)
        /\ vpc' = "cleanup"
        /\ vlastErr' = "decode"
        /\ UNCHANGED << vsock, vframe, vacks, link, spay, nsent, data, coreVars, sgVars, axVars >>

\* _handle_data: the buffer ends with the marker and loads raises an
\* exception that is neither UnpicklingError nor an OSError: nothing
\* catches it and the thread ends
VRecvFrameUncaught ==
    \E n \in 0..Len(wire) :
        /\ CanRecv(n)
        /\ EndsWith(Received(n), END_PAYLOAD)
        /\ Decode(Received(n)) \cap {"EOFError", "OtherError"} # {}
        /\ Took(n)
        /\ vbuf' = Received(n)
        /\ vpc' = "dead"
        /\ vlastErr' = "uncaught"
        /\ UNCHANGED << vsock, vframe, vacks, link, spay, nsent, data, coreVars, sgVars, axVars >>

\* recv raises ConnectionResetError or ConnectionAbortedError
VRecvReset ==
    /\ vpc = "recv"
    /\ vpc' = "cleanup"
    /\ vlastErr' = "reset"
    /\ UNCHANGED << vsock, vbuf, vframe, vgot, vacks, camVars, data, coreVars, sgVars, axVars >>

\* recv raises another OSError
VRecvOSError ==
    /\ vpc = "recv"
    /\ vpc' = "rsleep"
    /\ vlastErr' = "os_error"
    /\ UNCHANGED << vsock, vbuf, vframe, vgot, vacks, camVars, data, coreVars, sgVars, axVars >>

\* except self.DataError: break; self._socket.close(); self._socket = None.
\* The frame buffer is left as it is.
VCleanup ==
    /\ vpc = "cleanup"
    /\ vsock' = "None"
    /\ vpc' = "top"
    /\ link' = "down"
    /\ wire' = << >>
    /\ spay' = << >>
    /\ UNCHANGED << vbuf, vframe, vlastErr, vgot, vacks, nsent, data, coreVars, sgVars, axVars >>

\* the camera starts to listen
CamListen ==
    /\ link = "down"
    /\ link' = "listening"
    /\ UNCHANGED << wire, spay, nsent, vidVars, data, coreVars, sgVars, axVars >>

\* the camera sends a frame, payload and end marker, and waits for its ACK
CamSend ==
    \E p \in VPayloads :
        /\ link = "up"
        /\ spay = << >>
        /\ wire = << >>
        /\ nsent < MaxFrames
        /\ wire' = p \o END_PAYLOAD
        /\ spay' = << p >>
        /\ nsent' = nsent + 1
        /\ UNCHANGED << link, vidVars, data, coreVars, sgVars, axVars >>

\* the camera closes the connection, or goes away with what it sent still
\* on its side
CamClose ==
    /\ link = "up"
    /\ link' = "peer_closed"
    /\ wire' \in {wire, << >>}
    /\ UNCHANGED << spay, nsent, vidVars, data, coreVars, sgVars, axVars >>

VideoNext ==
    \/ VConnectOk \/ VConnectRefused \/ VConnectIsConnected \/ VReconnectSleep
    \/ VRecvEmpty \/ VRecvPartial
    \/ VRecvFrame \/ VRecvFrameAckReset \/ VRecvFrameAckOSError
    \/ VRecvFrameUnpicklingError \/ VRecvFrameUncaught
    \/ VRecvReset \/ VRecvOSError \/ VCleanup
    \/ CamListen \/ CamSend \/ CamClose

VideoSpec == Init /\ [][VideoNext]_vars

\* the step is a recv of the video thread that returned bytes
IsRecv ==
    /\ vpc = "recv"
    /\ link' = link
    /\ vsock' = vsock
    /\ Len(wire') < Len(wire)

\* the buffer after that recv
Arrived == vbuf \o SubSeq(wire, 1, Len(wire) - Len(wire'))

\* C15: however payload + end marker is split into receives, the thread
\* recognises a frame only when all of it has arrived, decodes exactly the
\* payload, and leaves the buffer empty, also when the payload holds the
\* bytes of the end marker.
C15_FrameIsPayload ==
    [][IsRecv =>
        /\ EndsWith(Arrived, END_PAYLOAD)
                => wire' = << >> /\ spay = << Body(Arrived) >>
        /\ (wire' = << >> /\ spay # << >> /\ PickleLoads(spay[1]) \subseteq Frames)
                => vbuf' = << >> /\ vframe' \in PickleLoads(spay[1])]_vars

C17_ZeroReadEndsSession ==
    vgot = "zero" =>
        /\ vpc \in {"cleanup", "top", "rsleep"}
        /\ vpc \in {"top", "rsleep"} => vsock # "connected"

\* C18: the frame changes only in a step that decodes a frame, to that
\* frame, and every step that decodes a frame stores it; a failed decode, a
\* part of a frame and a disconnect leave it as it is.
C18_FrameIsLastDecoded ==
    [][/\ vframe' # vframe
            => /\ IsRecv
               /\ EndsWith(Arrived, END_PAYLOAD)
               /\ vframe' \in PickleLoads(Body(Arrived))
       /\ (IsRecv /\ EndsWith(Arrived, END_PAYLOAD)
                  /\ PickleLoads(Body(Arrived)) \subseteq Frames)
            => vframe' \in PickleLoads(Body(Arrived))]_vars

C18_Witness ==
    /\ vframe = "frame1"
    /\ vlastErr = "decode"
    /\ vpc = "cleanup"
    /\ vacks = 1

\* C19: when a whole frame has arrived and its payload does not decode, no
\* ACK is sent and the thread goes on to close the socket and reconnect.
C19_DecodeFailureReconnects ==
    [][(/\ IsRecv
        /\ EndsWith(Arrived, END_PAYLOAD)
        /\ spay = << Body(Arrived) >>
        /\ PickleLoads(Body(Arrived)) \cap Frames = {})
            => vpc' = "cleanup" /\ vacks' = vacks]_vars

-----------------------------------------------------------------------------
(* Controller: the stick axes *)

\* the hardware range of an axis
AXIS_MAX == 32767
AXIS_MIN == 0 - 32768

\* the range axis readings are normalised to
axis_max == 1900
axis_min == 1100

SENSITIVITY == 100

\* normalise: int(intended_min + (value - current_min) * (intended_max -
\* intended_min) / (current_max - current_min)).  The sum is positive, so
\* int() rounds it down, and intended_min is whole, so the quotient is
\* rounded down; a quotient that is not whole is at least 1/65535 away from
\* a whole number, far more than the error of the float division.
normalise(value, current_min, current_max, intended_min, intended_max) ==
    intended_min
        + ((value - current_min) * (intended_max - intended_min))
            \div (current_max - current_min)

\* the hardware range of a trigger
TRIGGER_MAX == 255
TRIGGER_MIN == 0

\* the range trigger readings are normalised to
trigger_max == 1900
trigger_min == 1500

\* _idle
idle == normalise(0, AXIS_MIN, AXIS_MAX, axis_min, axis_max)

\* _button_sensitivity
button_sensitivity == Min(400, axis_max - idle)

arm_rotation_speed == Min(100, axis_max - idle)
box_movement_speed == Min(100, axis_max - idle)

\* _dispatch_map, the entries of the stick axes
DispatchAxes ==
    ("ABS_X" :> "left_axis_x") @@ ("ABS_Y" :> "left_axis_y")
    @@ ("ABS_RX" :> "right_axis_x") @@ ("ABS_RY" :> "right_axis_y")

\* the entries of the triggers
DispatchTriggers == ("ABS_Z" :> "left_trigger") @@ ("ABS_RZ" :> "right_trigger")

\* the entries of the hat
DispatchHat == ("ABS_HAT0X" :> "hat_x") @@ ("ABS_HAT0Y" :> "hat_y")

\* the entries of the buttons
DispatchButtons ==
    ("BTN_SOUTH" :> "button_A") @@ ("BTN_EAST" :> "button_B")
    @@ ("BTN_WEST" :> "button_X") @@ ("BTN_NORTH" :> "button_Y")
    @@ ("BTN_TL" :> "button_LB") @@ ("BTN_TR" :> "button_RB")
    @@ ("BTN_THUMBL" :> "button_left_stick") @@ ("BTN_THUMBR" :> "button_right_stick")
    @@ ("BTN_START" :> "button_select") @@ ("BTN_SELECT" :> "button_start")

\* _dispatch_map
dispatch_map == DispatchAxes @@ DispatchTriggers @@ DispatchHat @@ DispatchButtons

\* an event code that _dispatch_map does not hold
UnmappedCode == "SYN_REPORT"

\* readings an axis event may carry: both ends of the hardware range, rest
\* and the reading next to it, a reading 100 away from rest, and a reading
\* 67 short of the upper end
RawReadings == {AXIS_MIN, 0 - 1, 0, 100, 32700, AXIS_MAX}

\* readings a trigger event may carry
TriggerReadings == {TRIGGER_MIN, 1, TRIGGER_MAX}

\* a setter that asks for the threshold at the ends of the range as well
AxisSetThresholdOnly(current, value) ==
    IF Abs(current - value) >= SENSITIVITY THEN value ELSE current

\* the setter of an axis: the value the field holds after `axis = value`
AxisSet(current, value) ==
    IF value = AXIS_MAX \/ value = AXIS_MIN \/ Abs(current - value) >= SENSITIVITY
    THEN value
    ELSE current

\* the getter of an axis
AxisGet(a, f) == normalise(a[f], AXIS_MIN, AXIS_MAX, axis_min, axis_max)

\* a trigger getter whose left range ends at trigger_min - trigger_max
TriggerGetWrongEnd(t, f) ==
    IF f = "left_trigger"
    THEN normalise(t[f], TRIGGER_MIN, TRIGGER_MAX, trigger_min, trigger_min - trigger_max)
    ELSE normalise(t[f], TRIGGER_MIN, TRIGGER_MAX, trigger_min, trigger_max)

\* the getter of a trigger: the left one runs from 1500 down to
\* 2 * trigger_min - trigger_max, the right one from 1500 up to trigger_max
TriggerGet(t, f) ==
    IF f = "left_trigger"
    THEN normalise(t[f], TRIGGER_MIN, TRIGGER_MAX, trigger_min, 2 * trigger_min - trigger_max)
    ELSE normalise(t[f], TRIGGER_MIN, TRIGGER_MAX, trigger_min, trigger_max)

\* _dispatch_event: self.__setattr__(self._dispatch_map[event.code], event.state)
\* for a registered code, through the setter of the field
Dispatch(code, state) ==
    IF code \notin DOMAIN dispatch_map
    THEN UNCHANGED << axes, triggers, hat, buttons >>
    ELSE LET field == dispatch_map[code]
         IN  /\ axes' = IF field \in AxisFields
                        THEN [axes EXCEPT ![field] = AxisSet(axes[field], state)]
                        ELSE axes
             /\ triggers' = IF field \in TriggerFields
                            THEN [triggers EXCEPT ![field] = state]
                            ELSE triggers
             /\ hat' = IF field = "hat_x" THEN [hat EXCEPT ![field] = state]
                       ELSE IF field = "hat_y" THEN [hat EXCEPT ![field] = state * (0 - 1)]
                       ELSE hat
             /\ buttons' = IF field \in ButtonFields
                           THEN [buttons EXCEPT ![field] = state]
                           ELSE buttons

\* the events of the sticks and the triggers, and one that is not registered
AxisEvents ==
    {<< c, v >> : c \in DOMAIN DispatchAxes, v \in RawReadings}
    \cup {<< c, v >> : c \in DOMAIN DispatchTriggers, v \in TriggerReadings}
    \cup {<< UnmappedCode, 0 >>}

\* _read: the read thread takes one of the events and _dispatch_event
\* routes it
Read(events) ==
    \E e \in events :
        /\ cstep = "run"
        /\ Dispatch(e[1], e[2])
        /\ lastEvent' = e
        /\ UNCHANGED << lastSaved, tickWrote, tpos, cstep, hw, mpc >>
        /\ UNCHANGED << data, coreVars, sgVars, vidVars, camVars >>

\* an event of a stick or a trigger, or one that is not registered
DispatchEvent == Read(AxisEvents)

AxisNext == DispatchEvent

-----------------------------------------------------------------------------
(* Controller: the actuators and the tick *)

\* the inputs the getters read
Snapshot == [axes |-> axes, triggers |-> triggers, hat |-> hat, buttons |-> buttons]

\* a vertical thruster that looks at LB before RB
thruster_tfp_LB_first(s) ==
    IF s.buttons["button_LB"] # 0 THEN idle - button_sensitivity
    ELSE IF s.buttons["button_RB"] # 0 THEN idle + button_sensitivity
    ELSE IF s.hat["hat_y"] # 0 THEN idle - s.hat["hat_y"] * button_sensitivity
    ELSE IF s.hat["hat_x"] # 0 THEN idle + s.hat["hat_x"] * button_sensitivity
    ELSE idle

\* _update_thruster_fp
thruster_fp(s) ==
    LET lay == AxisGet(s.axes, "left_axis_y")
        rax == AxisGet(s.axes, "right_axis_x")
        rt == TriggerGet(s.triggers, "right_trigger")
        lt == TriggerGet(s.triggers, "left_trigger")
    IN  IF lay # idle /\ rax # idle
        THEN (IF lay < idle THEN 2 * idle - lay ELSE 2 * idle - rax)
        ELSE IF lay # idle THEN 2 * idle - lay
        ELSE IF rax # idle THEN 2 * idle - rax
        ELSE IF rt # idle THEN 2 * idle - rt
        ELSE IF lt # idle THEN 2 * idle - lt
        ELSE idle

\* _update_thruster_fs
thruster_fs(s) ==
    LET lay == AxisGet(s.axes, "left_axis_y")
        rax == AxisGet(s.axes, "right_axis_x")
        rt == TriggerGet(s.triggers, "right_trigger")
        lt == TriggerGet(s.triggers, "left_trigger")
    IN  IF lay # idle /\ rax # idle
        THEN (IF lay < idle THEN 2 * idle - lay ELSE rax)
        ELSE IF lay # idle THEN 2 * idle - lay
        ELSE IF rax # idle THEN rax
        ELSE IF rt # idle THEN rt
        ELSE IF lt # idle THEN lt
        ELSE idle

\* _update_thruster_ap
thruster_ap(s) ==
    LET lay == AxisGet(s.axes, "left_axis_y")
        rax == AxisGet(s.axes, "right_axis_x")
        rt == TriggerGet(s.triggers, "right_trigger")
        lt == TriggerGet(s.triggers, "left_trigger")
    IN  IF lay # idle /\ rax # idle
        THEN (IF lay > idle THEN lay ELSE 2 * idle - rax)
        ELSE IF lay # idle THEN lay
        ELSE IF rax # idle THEN 2 * idle - rax
        ELSE IF rt # idle THEN rt
        ELSE IF lt # idle THEN lt
        ELSE idle

\* _update_thruster_as
thruster_as(s) ==
    LET lay == AxisGet(s.axes, "left_axis_y")
        rax == AxisGet(s.axes, "right_axis_x")
        rt == TriggerGet(s.triggers, "right_trigger")
        lt == TriggerGet(s.triggers, "left_trigger")
    IN  IF lay # idle /\ rax # idle
        THEN (IF lay > idle THEN lay ELSE rax)
        ELSE IF lay # idle THEN lay
        ELSE IF rax # idle THEN rax
        ELSE IF rt # idle THEN 2 * idle - rt
        ELSE IF lt # idle THEN 2 * idle - lt
        ELSE idle

\* _update_thruster_tfp
thruster_tfp(s) ==
    IF s.buttons["button_RB"] # 0 THEN idle + button_sensitivity
    ELSE IF s.buttons["button_LB"] # 0 THEN idle - button_sensitivity
    ELSE IF s.hat["hat_y"] # 0 THEN idle - s.hat["hat_y"] * button_sensitivity
    ELSE IF s.hat["hat_x"] # 0 THEN idle + s.hat["hat_x"] * button_sensitivity
    ELSE idle

\* _update_thruster_tfs
thruster_tfs(s) ==
    IF s.buttons["button_RB"] # 0 THEN idle + button_sensitivity
    ELSE IF s.buttons["button_LB"] # 0 THEN idle - button_sensitivity
    ELSE IF s.hat["hat_y"] # 0 THEN idle - s.hat["hat_y"] * button_sensitivity
    ELSE IF s.hat["hat_x"] # 0 THEN idle - s.hat["hat_x"] * button_sensitivity
    ELSE idle

\* _update_thruster_tap
thruster_tap(s) ==
    IF s.buttons["button_RB"] # 0 THEN idle + button_sensitivity
    ELSE IF s.buttons["button_LB"] # 0 THEN idle - button_sensitivity
    ELSE IF s.hat["hat_y"] # 0 THEN idle + s.hat["hat_y"] * button_sensitivity
    ELSE IF s.hat["hat_x"] # 0 THEN idle + s.hat["hat_x"] * button_sensitivity
    ELSE idle

\* _update_thruster_tas
thruster_tas(s) ==
    IF s.buttons["button_RB"] # 0 THEN idle + button_sensitivity
    ELSE IF s.buttons["button_LB"] # 0 THEN idle - button_sensitivity
    ELSE IF s.hat["hat_y"] # 0 THEN idle + s.hat["hat_y"] * button_sensitivity
    ELSE IF s.hat["hat_x"] # 0 THEN idle - s.hat["hat_x"] * button_sensitivity
    ELSE idle

\* _update_arm
motor_arm(s) ==
    IF s.buttons["button_B"] # 0 THEN idle - arm_rotation_speed
    ELSE IF s.buttons["button_X"] # 0 THEN idle + arm_rotation_speed
    ELSE idle

\* _update_gripper
motor_gripper(s) ==
    IF s.buttons["button_Y"] # 0 THEN idle + button_sensitivity
    ELSE IF s.buttons["button_A"] # 0 THEN idle - button_sensitivity
    ELSE idle

\* _update_box
motor_box(s) ==
    IF s.buttons["button_left_stick"] # 0 THEN idle - box_movement_speed
    ELSE IF s.buttons["button_right_stick"] # 0 THEN idle + box_movement_speed
    ELSE idle

\* _data_manager_map, each key with the value its attribute returns
Values(s) ==
    [lax |-> AxisGet(s.axes, "left_axis_x"),
     lay |-> AxisGet(s.axes, "left_axis_y"),
     rax |-> AxisGet(s.axes, "right_axis_x"),
     ray |-> AxisGet(s.axes, "right_axis_y"),
     lt |-> TriggerGet(s.triggers, "left_trigger"),
     rt |-> TriggerGet(s.triggers, "right_trigger"),
     hx |-> s.hat["hat_x"],
     hy |-> s.hat["hat_y"],
     Thr_FP |-> thruster_fp(s),
     Thr_FS |-> thruster_fs(s),
     Thr_AP |-> thruster_ap(s),
     Thr_AS |-> thruster_as(s),
     Thr_TFP |-> thruster_tfp(s),
     Thr_TFS |-> thruster_tfs(s),
     Thr_TAP |-> thruster_tap(s),
     Thr_TAS |-> thruster_tas(s),
     Mot_R |-> motor_arm(s),
     Mot_G |-> motor_gripper(s),
     Mot_F |-> motor_box(s)]

\* _data_manager_keys in the order a tick visits them: a set of strings is
\* iterated in one order for the whole run
KeyOrder ==
    << "lax", "lay", "rax", "ray", "lt", "rt", "hx", "hy",
       "Thr_FP", "Thr_FS", "Thr_AP", "Thr_AS", "Thr_TFP", "Thr_TFS", "Thr_TAP", "Thr_TAS",
       "Mot_R", "Mot_G", "Mot_F" >>

\* whether _tick_update_data writes the key: it was never saved, or its
\* value is not the saved one
Dirty(saved, key, value) == key \notin DOMAIN saved \/ saved[key] # value

\* a pass of the loop that writes the key whatever was saved
VisitKeyAlways(key, value) ==
    /\ data' = Set(data, key :> value)
    /\ lastSaved' = Set(lastSaved, key :> value)
    /\ tickWrote' = tickWrote + 1

\* one pass of the loop of _tick_update_data
VisitKey(key, value) ==
    IF Dirty(lastSaved, key, value)
    THEN /\ data' = Set(data, key :> value)
         /\ lastSaved' = Set(lastSaved, key :> value)
         /\ tickWrote' = tickWrote + 1
    ELSE UNCHANGED << data, lastSaved, tickWrote >>

\* _update_data: the tick thread visits the next key
TickKey ==
    /\ cstep \in {"new", "run"}
    /\ tpos < Len(KeyOrder)
    /\ VisitKey(KeyOrder[tpos + 1], Values(Snapshot)[KeyOrder[tpos + 1]])
    /\ tpos' = tpos + 1
    /\ UNCHANGED << axes, lastEvent, triggers, hat, buttons, cstep, hw, mpc >>
    /\ UNCHANGED << coreVars, sgVars, vidVars, camVars >>

\* _update_data: the tick is over; once _UPDATE_DELAY has passed the
\* thread starts the next one
TickSleep ==
    /\ cstep = "run"
    /\ tpos = Len(KeyOrder)
    /\ tpos' = 0
    /\ tickWrote' = 0
    /\ UNCHANGED << axes, lastEvent, triggers, hat, buttons, lastSaved, cstep, hw, mpc >>
    /\ UNCHANGED << data, coreVars, sgVars, vidVars, camVars >>

\* Controller.__init__ with a game controller: the tick of the constructor
\* is over and main.py goes on to controller.init()
Constructed ==
    /\ cstep = "new"
    /\ tpos = Len(KeyOrder)
    /\ cstep' = "built"
    /\ mpc' = "init"
    /\ tpos' = 0
    /\ tickWrote' = 0
    /\ UNCHANGED << axes, lastEvent, triggers, hat, buttons, lastSaved, hw >>
    /\ UNCHANGED << data, coreVars, sgVars, vidVars, camVars >>

\* an init() that starts the threads whether or not _controller exists
ControllerInitUnchecked ==
    /\ mpc = "init"
    /\ cstep' = "run"
    /\ mpc' = "connect"
    /\ UNCHANGED << axes, lastEvent, triggers, hat, buttons, lastSaved, tickWrote, tpos, hw >>
    /\ UNCHANGED << data, coreVars, sgVars, vidVars, camVars >>

\* Controller.init: without _controller it reports the error, else it
\* starts the tick thread and the read thread
ControllerInit ==
    /\ mpc = "init"
    /\ cstep' = IF cstep = "off" THEN "failed" ELSE "run"
    /\ mpc' = "connect"
    /\ UNCHANGED << axes, lastEvent, triggers, hat, buttons, lastSaved, tickWrote, tpos, hw >>
    /\ UNCHANGED << data, coreVars, sgVars, vidVars, camVars >>

\* the events of the tick specification: the two buttons of the vertical
\* thrusters and a button of the arm, pressed and released
TickEvents == {<< c, v >> : c \in {"BTN_TR", "BTN_TL", "BTN_EAST"}, v \in {0, 1}}

TickEvent == Read(TickEvents)

\* Controller.__init__ with a game controller, before the tick it runs
Constructing ==
    /\ Defaults
    /\ lastSaved = EmptyDict
    /\ tickWrote = 0
    /\ tpos = 0
    /\ cstep = "new"
    /\ hw = TRUE
    /\ mpc = "construct"

\* main.py with a game controller: dm.clear(), then Controller()
TickInit ==
    /\ Constructing
    /\ data = EmptyDict
    /\ peerUp = FALSE
    /\ TasksInit
    /\ SgIdle
    /\ VidInit
    /\ CamInit

TickNext == TickKey \/ Constructed \/ ControllerInit \/ TickSleep \/ TickEvent

TickSpec == TickInit /\ [][TickNext]_vars

\* Controller.__init__ with a game controller: the fields hold their
\* defaults and the tick of the constructor has stored every mapped key;
\* init() has started the two threads
Running ==
    /\ Defaults
    /\ lastSaved = Values(Snapshot)
    /\ tickWrote = 0
    /\ tpos = 0
    /\ cstep = "run"
    /\ hw = TRUE
    /\ mpc = "started"

\* the program with a game controller, once main.py has started everything
AxisInit ==
    /\ Running
    /\ data = Values(Snapshot)
    /\ peerUp = FALSE
    /\ TasksInit
    /\ SgIdle
    /\ VidInit
    /\ CamInit

AxisSpec == AxisInit /\ [][AxisNext]_vars

\* C20: an axis event whose reading is not an end of the hardware range and
\* is at most the sensitivity threshold (100) away from the accepted
\* reading leaves the accepted reading, and with it the normalised value of
\* the axis, as they were.
C20_JitterIgnored ==
    [][(/\ lastEvent' # << >>
        /\ lastEvent'[1] \in DOMAIN DispatchAxes
        /\ lastEvent'[2] \notin {AXIS_MAX, AXIS_MIN}
        /\ Abs(axes[DispatchAxes[lastEvent'[1]]] - lastEvent'[2]) <= 100)
            => /\ axes' = axes
               /\ \A f \in AxisFields : AxisGet(axes', f) = AxisGet(axes, f)]_vars

\* whether the last event was one of the stick axis f carrying reading v
LastAxisEvent(f, v) ==
    /\ lastEvent # << >>
    /\ lastEvent[1] \in DOMAIN DispatchAxes
    /\ DispatchAxes[lastEvent[1]] = f
    /\ lastEvent[2] = v

\* C21: an axis event whose reading is an end of the hardware range
\* (-32768 or 32767) is accepted whatever the accepted reading was, and the
\* normalised value of the axis becomes 1100 or 1900.
C21_ExtremeAccepted ==
    [][(/\ lastEvent' # << >>
        /\ lastEvent'[1] \in DOMAIN DispatchAxes
        /\ lastEvent'[2] \in {AXIS_MAX, AXIS_MIN})
            => LET f == DispatchAxes[lastEvent'[1]]
               IN  /\ axes'[f] = lastEvent'[2]
                   /\ AxisGet(axes', f) = (IF lastEvent'[2] = AXIS_MIN THEN 1100 ELSE 1900)]_vars

\* an axis took each end of the range: one sits at the upper end after its
\* event, another at the lower end
C21_Witness ==
    \E f \in AxisFields, g \in AxisFields :
        /\ LastAxisEvent(f, AXIS_MAX)
        /\ axes[f] = AXIS_MAX /\ AxisGet(axes, f) = 1900
        /\ axes[g] = AXIS_MIN /\ AxisGet(axes, g) = 1100

\* C22: an axis whose accepted reading is within the sensitivity threshold
\* of rest (raw 0) has the idle value 1500 as its normalised value.
C22_RestIsIdle ==
    \A f \in AxisFields :
        Abs(axes[f]) <= SENSITIVITY => AxisGet(axes, f) = idle

\* C23: after any sequence of axis and trigger events with readings in the
\* hardware range, the normalised value of every axis and of every trigger
\* lies in 1100..1900.
C23_NormalisedInRange ==
    /\ \A f \in AxisFields : AxisGet(axes, f) \in axis_min..axis_max
    /\ \A f \in TriggerFields : TriggerGet(triggers, f) \in axis_min..axis_max

\* both triggers fully pressed and an axis at each end of its range
C23_Witness ==
    /\ triggers["left_trigger"] = TRIGGER_MAX
    /\ TriggerGet(triggers, "left_trigger") = 1100
    /\ triggers["right_trigger"] = TRIGGER_MAX
    /\ TriggerGet(triggers, "right_trigger") = 1900
    /\ \E f \in AxisFields : AxisGet(axes, f) = 1100
    /\ \E f \in AxisFields : AxisGet(axes, f) = 1900

-----------------------------------------------------------------------------
(* Controller: the actuators as functions of the inputs *)

\* the events of the input specification: the buttons of the vertical
\* thrusters and of the arm, the hat, the two stick axes and the two
\* triggers the thrusters read
InputEvents ==
    {<< c, v >> : c \in {"BTN_TR", "BTN_TL", "BTN_EAST", "BTN_WEST"}, v \in {0, 1}}
    \cup {<< c, v >> : c \in DOMAIN DispatchHat, v \in {0 - 1, 0, 1}}
    \cup {<< c, v >> : c \in {"ABS_Y", "ABS_RX"}, v \in {AXIS_MIN, 0, AXIS_MAX}}
    \cup {<< c, v >> : c \in DOMAIN DispatchTriggers, v \in {TRIGGER_MIN, TRIGGER_MAX}}

InputEvent == Read(InputEvents)

InputSpec == AxisInit /\ [][InputEvent]_vars

\* C24: the value of every actuator is the one the priority chain selects
\* from the inputs as they are now, whatever the order of the events that
\* led to them: with RB pressed every vertical thruster is at 1900 whether
\* or not LB is pressed too, else with LB pressed it is at 1100, else the
\* hat decides; a deflected stick decides the horizontal thrusters before
\* the triggers do; button B decides the arm before button X.
C24_ActuatorsFollowInputs ==
    LET s == Snapshot
        v == Values(s)
        RB == buttons["button_RB"] # 0
        LB == buttons["button_LB"] # 0
        lay == AxisGet(axes, "left_axis_y")
        rax == AxisGet(axes, "right_axis_x")
        rt == TriggerGet(triggers, "right_trigger")
        lt == TriggerGet(triggers, "left_trigger")
    IN  /\ RB => \A k \in {"Thr_TFP", "Thr_TFS", "Thr_TAP", "Thr_TAS"} : v[k] = 1900
        /\ (~RB /\ LB) => \A k \in {"Thr_TFP", "Thr_TFS", "Thr_TAP", "Thr_TAS"} : v[k] = 1100
        /\ (~RB /\ ~LB /\ hat["hat_y"] # 0) =>
                /\ v["Thr_TFP"] = 1500 - 400 * hat["hat_y"]
                /\ v["Thr_TFS"] = 1500 - 400 * hat["hat_y"]
                /\ v["Thr_TAP"] = 1500 + 400 * hat["hat_y"]
                /\ v["Thr_TAS"] = 1500 + 400 * hat["hat_y"]
        /\ (~RB /\ ~LB /\ hat["hat_y"] = 0) =>
                /\ v["Thr_TFP"] = 1500 + 400 * hat["hat_x"]
                /\ v["Thr_TFS"] = 1500 - 400 * hat["hat_x"]
                /\ v["Thr_TAP"] = 1500 + 400 * hat["hat_x"]
                /\ v["Thr_TAS"] = 1500 - 400 * hat["hat_x"]
        /\ (lay # 1500 /\ rax = 1500) =>
                /\ v["Thr_FP"] = 3000 - lay /\ v["Thr_FS"] = 3000 - lay
                /\ v["Thr_AP"] = lay /\ v["Thr_AS"] = lay
        /\ (lay = 1500 /\ rax # 1500) =>
                /\ v["Thr_FP"] = 3000 - rax /\ v["Thr_FS"] = rax
                /\ v["Thr_AP"] = 3000 - rax /\ v["Thr_AS"] = rax
        /\ (lay = 1500 /\ rax = 1500 /\ rt # 1500) =>
                /\ v["Thr_FP"] = 3000 - rt /\ v["Thr_FS"] = rt
                /\ v["Thr_AP"] = rt /\ v["Thr_AS"] = 3000 - rt
        /\ (lay = 1500 /\ rax = 1500 /\ rt = 1500) =>
                /\ v["Thr_FP"] = 3000 - lt /\ v["Thr_FS"] = lt
                /\ v["Thr_AP"] = lt /\ v["Thr_AS"] = 3000 - lt
        /\ v["Mot_R"] = (IF buttons["button_B"] # 0 THEN 1400
                         ELSE IF buttons["button_X"] # 0 THEN 1600 ELSE 1500)

\* RB was pressed and then LB: both are held and the vertical thrusters
\* are at 1900
C24_Witness ==
    /\ lastEvent = << "BTN_TL", 1 >>
    /\ buttons["button_RB"] = 1
    /\ buttons["button_LB"] = 1
    /\ Values(Snapshot)["Thr_TFP"] = 1900

-----------------------------------------------------------------------------
(* Controller: the tick *)

\* C25: a pass of the tick over a key stores the key if and only if the
\* engine never stored it or its value differs from the one the engine
\* stored last; otherwise the pass leaves the store as it is, so a tick
\* that finds nothing changed writes nothing.
C25_WriteIffChanged ==
    [][tpos' = tpos + 1 =>
        LET key == KeyOrder[tpos + 1]
            value == Values(Snapshot)[key]
        IN  IF key \notin DOMAIN lastSaved \/ lastSaved[key] # value
            THEN /\ tickWrote' = tickWrote + 1
                 /\ key \in DOMAIN data' /\ data'[key] = value
                 /\ lastSaved'[key] = value
            ELSE /\ tickWrote' = tickWrote
                 /\ data' = data
                 /\ lastSaved' = lastSaved]_vars

\* a tick of the thread is over and has written nothing
C25_Witness ==
    /\ cstep = "run"
    /\ tpos = Len(KeyOrder)
    /\ tickWrote = 0
    /\ buttons["button_RB"] = 1

-----------------------------------------------------------------------------
(* main.py: the start of the program *)

\* connection.connect(): the thread of the command link is started
MainConnect ==
    /\ mpc = "connect"
    /\ mpc' = "stream"
    /\ UNCHANGED << axes, lastEvent, triggers, hat, buttons, lastSaved, tickWrote, tpos, cstep, hw >>
    /\ UNCHANGED << data, coreVars, sgVars, vidVars, camVars >>

\* stream.stream(): the thread of the video stream is started
MainStream ==
    /\ mpc = "stream"
    /\ mpc' = "started"
    /\ UNCHANGED << axes, lastEvent, triggers, hat, buttons, lastSaved, tickWrote, tpos, cstep, hw >>
    /\ UNCHANGED << data, coreVars, sgVars, vidVars, camVars >>

\* the connect loop of the command link, once its thread is started
ConnectLoop ==
    /\ mpc \in {"stream", "started"}
    /\ (ConnectOk \/ ConnectRefused \/ ReconnectSleep)

\* the connect loop of the video stream, once its thread is started
VConnectLoop ==
    /\ mpc = "started"
    /\ (VConnectOk \/ VConnectRefused \/ VReconnectSleep)

\* the events of the start specification: RB pressed and released
StartEvents == {<< "BTN_TR", 1 >>, << "BTN_TR", 0 >>}

StartEvent == Read(StartEvents)

\* main.py: dm.clear(), then Controller() with or without a game controller
StartInit ==
    /\ hw \in BOOLEAN
    /\ Defaults
    /\ lastSaved = EmptyDict
    /\ tickWrote = 0
    /\ tpos = 0
    /\ cstep = (IF hw THEN "new" ELSE "off")
    /\ mpc = (IF hw THEN "construct" ELSE "init")
    /\ data = EmptyDict
    /\ peerUp \in BOOLEAN
    /\ TasksInit
    /\ SgIdle
    /\ VidInit
    /\ CamInit

StartNext ==
    \/ TickKey \/ Constructed \/ ControllerInit \/ TickSleep \/ StartEvent
    \/ MainConnect \/ MainStream
    \/ ConnectLoop \/ VConnectLoop \/ CamListen

StartSpec == StartInit /\ [][StartNext]_vars

\* C26: when no game controller is detected, init() reports it, the read
\* loop and the tick loop are never started and nothing is written to the
\* store, while the command link and the video stream are started all the
\* same.
C26_NoHardwareNoLoops ==
    ~hw =>
        /\ cstep \in {"off", "failed"}
        /\ mpc # "init" => cstep = "failed"
        /\ tpos = 0 /\ tickWrote = 0 /\ lastSaved = EmptyDict
        /\ lastEvent = << >>
        /\ data = EmptyDict
        /\ mpc \in {"init", "connect"} => pc = "top" /\ sock = "None"
        /\ mpc # "started" => vpc = "top" /\ vsock = "None"

\* without a game controller both channels run their connect loops: the
\* command link is connected and the video stream retries
C26_Witness ==
    /\ ~hw
    /\ cstep = "failed"
    /\ sock = "connected"
    /\ vpc = "rsleep"
    /\ vlastErr = "refused"
    /\ data = EmptyDict

-----------------------------------------------------------------------------
(* VideoStream: the pair of the camera and the receiving thread *)

\* C27: while the connection is up and the camera, having sent the pickle
\* of a frame followed by the end marker, waits for its acknowledgement, the
\* receiving thread is still running: the pair never comes to a state where
\* the camera waits and nobody is left to answer.
C27_NoDeadlock ==
    ~(/\ link = "up"
      /\ spay # << >>
      /\ PickleLoads(spay[1]) \cap Frames # {}
      /\ vpc = "dead")

\* C28: when the buffer holds the end marker and nothing else, the frame
\* becomes null, the buffer is emptied and the acknowledgement is sent; the
\* thread goes on receiving.
C28_MarkerAloneClearsFrame ==
    [][(IsRecv /\ Arrived = END_PAYLOAD)
            => /\ vframe' = "None"
               /\ vbuf' = << >>
               /\ vacks' = vacks + 1
               /\ vpc' = "recv"]_vars

\* C29: when a session starts, right after a successful connect and before
\* its first recv, the frame buffer is empty.
C29_SessionStartsEmpty ==
    (vpc = "recv" /\ vgot = "none") => vbuf = << >>

-----------------------------------------------------------------------------
(* Safeguard: the square root *)

\* C30: whenever the total current is over the budget, the current each
\* safeguarded key is scaled to is not below the minimum of the current
\* curve, so the discriminant of the inversion is not negative and get with
\* transmit=True does not raise; this includes keys near 1500, whose
\* current is negative.
C30_DiscriminantNotNegative ==
    /\ sgPc # "raised"
    /\ TotalCurrent(Safeguarded(data)) > AMP_LIMIT =>
            \A k \in DOMAIN Safeguarded(data) :
                ScaledAmp(Safeguarded(data), k) >= VertexAmp

\* a store over the budget was rescaled, with a key at 1502, next to the
\* vertex of the curve, and a key at idle, both of negative current
C30_Witness ==
    /\ Rescaled
    /\ \E k \in DOMAIN Safeguarded(data) :
            /\ data[k] = 1502
            /\ ScaledAmp(Safeguarded(data), k) < 0
    /\ \E k \in DOMAIN Safeguarded(data) :
            /\ data[k] = 1500
            /\ ScaledAmp(Safeguarded(data), k) < 0

-----------------------------------------------------------------------------
(* Safeguard: what the rescaling does to the values *)

\* C31: when the total exceeds the budget, every non-idle value of
\* [1100, 1900] is replaced by a value that is no further from 1500 than
\* the stored one.
C31_OnlyDerates ==
    Rescaled =>
        \A k \in DOMAIN sgOut :
            data[k] \notin IDLE_VALUES =>
                Abs(sgOut[k] - Scale * 1500) <= Abs(Scale * data[k] - Scale * 1500)

\* C32: the predicted currents of the values a read for transmission
\* returns add up to no more than the budget (within the tolerance of the
\* rounding), whether the store was over the budget or not and whether or
\* not some keys hold idle values.
C32_ReturnedWithinBudget ==
    sgPc = "done" => ReturnedCurrent(sgOut) <= AMP_LIMIT + CurrentTolerance

\* a store over the budget that holds idle and non-idle values was read
C32_Witness ==
    /\ Rescaled
    /\ IdleKeys(data) # {}
    /\ \E k \in DOMAIN sgOut : data[k] \notin IDLE_VALUES /\ sgOut[k] # Scale * data[k]
    /\ ReturnedCurrent(sgOut) <= AMP_LIMIT + CurrentTolerance

\* C33: a read for transmission leaves the store as it is, and a read
\* without transmit that follows it returns the stored, unscaled values.
C33_ReadTimeOnly ==
    [][/\ (sgPc = "ready" /\ sgPc' # "ready") => data' = data
       /\ sgPc' = "read" => (data' = data /\ sgOut' = data)]_vars

\* a store over the budget was rescaled for transmission and then read
\* again without transmit
C33_Witness ==
    /\ sgPc = "read"
    /\ TotalCurrent(Safeguarded(data)) > AMP_LIMIT
    /\ sgOut = data
    /\ \E k \in DOMAIN Safeguarded(data) :
            SafeguardStage(FetchTransmission(data, << >>))[k] # Scale * data[k]

-----------------------------------------------------------------------------
(* Controller: triggers, thruster chain and arm *)

\* C34: a trigger event whose reading is not an end of the hardware range
\* (0 or 255) and is at most the sensitivity threshold away from the
\* accepted reading leaves the accepted reading as it was.
C34_TriggerHysteresis ==
    [][(/\ lastEvent' # << >>
        /\ lastEvent'[1] \in DOMAIN DispatchTriggers
        /\ lastEvent'[2] \notin {TRIGGER_MAX, TRIGGER_MIN}
        /\ Abs(triggers[DispatchTriggers[lastEvent'[1]]] - lastEvent'[2]) <= SENSITIVITY)
            => triggers' = triggers]_vars

\* C35: when a trigger is pressed it decides the forward thrusters, the
\* right trigger before the left one, whether or not a stick is deflected.
C35_TriggerBeforeStick ==
    LET rt == TriggerGet(triggers, "right_trigger")
        lt == TriggerGet(triggers, "left_trigger")
        t == IF rt # idle THEN rt ELSE lt
    IN  (rt # idle \/ lt # idle) =>
            /\ Values(Snapshot)["Thr_FP"] = 2 * idle - t
            /\ Values(Snapshot)["Thr_FS"] = t

\* C36: a pass of the tick over Mot_R moves the stored value of the arm by
\* the rotation speed while button B or button X is held, not beyond
\* 1100 and 1900, and leaves it as it is when neither is held.
C36_ArmKeepsPosition ==
    [][(cstep = "run" /\ tpos' = tpos + 1 /\ KeyOrder[tpos + 1] = "Mot_R") =>
        data'["Mot_R"] =
            (IF buttons["button_B"] # 0
                THEN (IF data["Mot_R"] - arm_rotation_speed < axis_min
                      THEN axis_min ELSE data["Mot_R"] - arm_rotation_speed)
             ELSE IF buttons["button_X"] # 0
                THEN Min(axis_max, data["Mot_R"] + arm_rotation_speed)
             ELSE data["Mot_R"])]_vars

-----------------------------------------------------------------------------
(* Controller: the values the tick writes *)

\* readings of the left stick on its way back to rest: two small
\* deflections and the rest reading
EngineReadings == {0 - 150, 0 - 50, 0}

\* the events of the engine specification: the y axis of the left stick
EngineEvents == {<< "ABS_Y", v >> : v \in EngineReadings}

EngineEvent == Read(EngineEvents)

\* the tick thread and the read thread, interleaved key by key
EngineNext == TickKey \/ TickSleep \/ EngineEvent

EngineSpec == AxisInit /\ [][EngineNext]_vars

\* every input is at rest: the last event, if there was one, was the left
\* stick reporting its rest reading, and no other input left its default
InputsAtRest ==
    /\ lastEvent # << >> => (lastEvent[1] = "ABS_Y" /\ lastEvent[2] = 0)
    /\ \A f \in AxisFields \ {"left_axis_y"} : axes[f] = 0
    /\ \A f \in TriggerFields : triggers[f] = 0
    /\ \A f \in DOMAIN hat : hat[f] = 0
    /\ \A f \in DOMAIN buttons : buttons[f] = 0

\* C37: whatever events came and however the read thread and the tick
\* interleave, a thruster or motor value the tick writes to the store lies
\* in 1100..1900, and it is the idle value 1500 when every input is at rest.
C37_WrittenInRangeIdleAtRest ==
    [][(/\ tpos' = tpos + 1
        /\ tickWrote' # tickWrote
        /\ KeyOrder[tpos + 1] \notin {"lax", "lay", "rax", "ray", "lt", "rt", "hx", "hy"})
            => LET k == KeyOrder[tpos + 1]
               IN  /\ data'[k] \in axis_min..axis_max
                   /\ InputsAtRest => data'[k] = idle]_vars

-----------------------------------------------------------------------------
(* Controller and Connection: the tick and the inbound messages *)

\* the session task and the tick thread on the one store
CommandNext == Next \/ TickKey \/ TickSleep

\* the program with a game controller and the command link
CommandSpec == AxisInit /\ [][CommandNext]_vars

\* C38: when the tick visits a mapped thruster or motor key, the store
\* holds afterwards the value the engine computed for the key in that tick,
\* also when an inbound message had put another value there since the tick
\* before.
C38_TickRestores ==
    [][(/\ tpos' = tpos + 1
        /\ KeyOrder[tpos + 1] \notin {"lax", "lay", "rax", "ray", "lt", "rt", "hx", "hy"})
            => data'[KeyOrder[tpos + 1]] = Values(Snapshot)[KeyOrder[tpos + 1]]]_vars

=============================================================================
